---- MODULE Spec2Model ----
(***************************************************************************)
(* Model of streamlit_app.py (Comparador de Datos): the text normalizer    *)
(* (remove_accents, normalize_value, normalize_column), the first-wins     *)
(* dedup (get_unique_records) and the comparison block of main().          *)
(*                                                                         *)
(* A Python string is a sequence of characters; a character is a one-      *)
(* character string, and a non-ASCII character is named by its code point  *)
(* ("u00E9" is e-acute, "u0301" the combining acute accent, "u00B2"        *)
(* superscript two, "u0663" Arabic-Indic three, "u00DF" sharp s).          *)
(* A cell is a record [t, s, n]: t is its Python type ("null" for NaN,     *)
(* "str", "int", "float"), s its characters when a str, n its value when   *)
(* an int, and its value in tenths when a float (425 is 42.5).             *)
(***************************************************************************)
EXTENDS Integers, Sequences, FiniteSets, TLC

VARIABLES call, data, widgets, session, run, disk, reruns

vars == <<call, data, widgets, session, run, disk, reruns>>

----------------------------------------------------------------------------
(* Bounds of the model *)

MaxLen == 3
MaxTrim == 4
MaxNum == 45
MaxDedupRows == 3
MaxRows == 2
MaxReruns == 4

----------------------------------------------------------------------------
(* Characters and cells *)

AsciiDigits == {"0", "1", "2", "3", "4", "5", "6", "7", "8", "9"}

DigitChars == <<"0", "1", "2", "3", "4", "5", "6", "7", "8", "9">>

NonAscii == {"u00E9", "u0301", "u00B2", "u0663", "u00DF"}

NaN == [t |-> "null", s |-> <<>>, n |-> 0]

StrCell(chars) == [t |-> "str", s |-> chars, n |-> 0]

IntCell(i) == [t |-> "int", s |-> <<>>, n |-> i]

FloatCell(tenths) == [t |-> "float", s |-> <<>>, n |-> tenths]

Abs(i) == IF i < 0 THEN -i ELSE i

RECURSIVE NatToStr(_)
NatToStr(i) ==
    IF i < 10 THEN <<DigitChars[i + 1]>>
    ELSE NatToStr(i \div 10) \o <<DigitChars[(i % 10) + 1]>>

IntToStr(i) == IF i < 0 THEN <<"-">> \o NatToStr(-i) ELSE NatToStr(i)

FloatToStr(tenths) ==
    (IF tenths < 0 THEN <<"-">> ELSE <<>>)
        \o NatToStr(Abs(tenths) \div 10) \o <<".">>
        \o <<DigitChars[(Abs(tenths) % 10) + 1]>>

\* float.is_integer()
is_integer(tenths) == Abs(tenths) % 10 = 0

\* int(float): truncation toward zero
FloatToInt(tenths) ==
    IF tenths < 0 THEN -(Abs(tenths) \div 10) ELSE tenths \div 10

\* str(value)
py_str(value) ==
    CASE value.t = "str" -> value.s
      [] value.t = "int" -> IntToStr(value.n)
      [] value.t = "float" -> FloatToStr(value.n)
      [] OTHER -> <<"n", "a", "n">>

\* pd.isna(value)
pd_isna(value) == value.t = "null"

\* str.isdigit(): the Unicode digit test, true of superscript and
\* Arabic-Indic digits too
isdigit(c) == c \in AsciiDigits \cup {"u00B2", "u0663"}

RECURSIVE Flatten(_)
Flatten(ss) == IF ss = <<>> THEN <<>> ELSE Head(ss) \o Flatten(Tail(ss))

----------------------------------------------------------------------------
(* remove_accents *)

\* unicodedata.normalize('NFKD', c) of one character
NFKD(c) ==
    CASE c = "u00E9" -> <<"e", "u0301">>
      [] c = "u00B2" -> <<"2">>
      [] OTHER -> <<c>>

nfkd_form(chars) == Flatten([i \in 1..Len(chars) |-> NFKD(chars[i])])

IsAscii(c) == c \notin NonAscii

\* .encode('ASCII', 'ignore').decode('ASCII')
only_ascii(chars) == SelectSeq(chars, IsAscii)

\* a non-str argument makes unicodedata.normalize raise TypeError, and the
\* except branch returns the argument
remove_accents(input_str) ==
    IF input_str.t = "str"
    THEN StrCell(only_ascii(nfkd_form(input_str.s)))
    ELSE input_str

----------------------------------------------------------------------------
(* normalize_value *)

\* value_str[trim_start:] under "if trim_start > 0"
TrimStart(value_str, trim_start) ==
    IF trim_start > 0
    THEN SubSeq(value_str, trim_start + 1, Len(value_str))
    ELSE value_str

\* TrimEnd without its else branch: a trim_end that reaches the length leaves
\* the text as it is
TrimEndKeepsShort(value_str, trim_end) ==
    IF trim_end > 0 /\ trim_end < Len(value_str)
    THEN SubSeq(value_str, 1, Len(value_str) - trim_end)
    ELSE value_str

\* value_str[:-trim_end] if trim_end < len(value_str) else '', under
\* "if trim_end > 0"
TrimEnd(value_str, trim_end) ==
    IF trim_end > 0
    THEN IF trim_end < Len(value_str)
         THEN SubSeq(value_str, 1, Len(value_str) - trim_end)
         ELSE <<>>
    ELSE value_str

\* KeepDigits reading the digits as a number: leading zeros are dropped
RECURSIVE StripLeadingZeros(_)
StripLeadingZeros(chars) ==
    IF Len(chars) > 1 /\ Head(chars) = "0" THEN StripLeadingZeros(Tail(chars))
    ELSE chars

KeepDigitsAsNumber(value_str) == StripLeadingZeros(SelectSeq(value_str, isdigit))

\* ''.join(char for char in value_str if char.isdigit())
KeepDigits(value_str) == SelectSeq(value_str, isdigit)

\* "if isinstance(value, float) and value.is_integer():
\*      value_str = str(int(value))": replaces the trimmed, filtered text
FloatAsInteger(value, value_str) ==
    IF value.t = "float" /\ is_integer(value.n)
    THEN IntToStr(FloatToInt(value.n))
    ELSE value_str

normalize_value(value, trim_start, trim_end) ==
    IF pd_isna(value) THEN <<>>
    ELSE FloatAsInteger(value,
            KeepDigits(TrimEnd(TrimStart(py_str(value), trim_start), trim_end)))

(* Tables: a DataFrame is [columns, rows], columns the column names in      *)
(* order and rows the records, each a function from column name to cell    *)

Range(seq) == {seq[i] : i \in 1..Len(seq)}

DataFrame(columns, rows) == [columns |-> columns, rows |-> rows]

EmptyDf == DataFrame(<<>>, <<>>)

\* df[column_name]: the cells of a column, in row order
Column(df, column_name) == [i \in 1..Len(df.rows) |-> df.rows[i][column_name]]

----------------------------------------------------------------------------
(* normalize_column *)

\* df_copy = df.copy(); df_copy[target] = df_copy[column_name].apply(
\*     lambda x: normalize_value(x, trim_start, trim_end)); return df_copy
\* target is new_column_name, or column_name when new_column_name is falsy
normalize_column(df, column_name, new_column_name, trim_start, trim_end) ==
    LET target == IF new_column_name # "" THEN new_column_name ELSE column_name
        columns == IF target \in Range(df.columns) THEN df.columns
                   ELSE Append(df.columns, target)
    IN DataFrame(columns,
          [i \in 1..Len(df.rows) |->
              [c \in Range(columns) |->
                  IF c = target
                  THEN StrCell(normalize_value(df.rows[i][column_name],
                                               trim_start, trim_end))
                  ELSE df.rows[i][c]]])

\* with df_copy = df in place of df.copy() the caller's df is the table that
\* gets the column
normalize_column_in_place(df, column_name, new_column_name, trim_start, trim_end) ==
    normalize_column(df, column_name, new_column_name, trim_start, trim_end)

\* the caller's df once normalize_column has returned: every assignment of
\* normalize_column is to df_copy, the table df.copy() made
normalize_column_leaves(df, column_name, new_column_name, trim_start, trim_end) ==
    df

----------------------------------------------------------------------------
(* The preview of processed records, shown while no result is stored *)

\* x[:-trim_end] if trim_end > 0 else x: a slice stops at 0 when trim_end
\* exceeds the length
SliceOffEnd(x, trim_end) ==
    IF trim_end > 0
    THEN SubSeq(x, 1, IF Len(x) - trim_end > 0 THEN Len(x) - trim_end ELSE 0)
    ELSE x

\* one cell of sample_trimmed: the cell as text (astype(str)), then
\* x[trim_start:] if trim_start > 0, then x[:-trim_end] if trim_end > 0
sample_trimmed(value, trim_start, trim_end) ==
    SliceOffEnd(TrimStart(py_str(value), trim_start), trim_end)

\* one cell of sample_normalized when trimming is enabled:
\* sample_trimmed.apply(lambda x: normalize_value(x, trim_start, trim_end))
sample_normalized(value, trim_start, trim_end) ==
    normalize_value(StrCell(sample_trimmed(value, trim_start, trim_end)),
                    trim_start, trim_end)

----------------------------------------------------------------------------
(* get_unique_records: df.drop_duplicates(subset=[column_name]), which     *)
(* keeps the first row of each value of the column, in row order           *)

\* drop_duplicates with keep='last'
RECURSIVE keep_last_from(_, _, _)
keep_last_from(rows, column_name, i) ==
    IF i > Len(rows) THEN <<>>
    ELSE IF \E j \in (i + 1)..Len(rows) : rows[j][column_name] = rows[i][column_name]
         THEN keep_last_from(rows, column_name, i + 1)
         ELSE <<rows[i]>> \o keep_last_from(rows, column_name, i + 1)

drop_duplicates_keep_last(df, column_name) ==
    DataFrame(df.columns, keep_last_from(df.rows, column_name, 1))

\* drop_duplicates with the default keep='first'
RECURSIVE keep_first_from(_, _, _)
keep_first_from(rows, column_name, i) ==
    IF i > Len(rows) THEN <<>>
    ELSE IF \E j \in 1..(i - 1) : rows[j][column_name] = rows[i][column_name]
         THEN keep_first_from(rows, column_name, i + 1)
         ELSE <<rows[i]>> \o keep_first_from(rows, column_name, i + 1)

drop_duplicates(df, column_name) ==
    DataFrame(df.columns, keep_first_from(df.rows, column_name, 1))

get_unique_records(df, column_name) == drop_duplicates(df, column_name)

----------------------------------------------------------------------------
(* The functions called on their own: call is the last call made and its   *)
(* result                                                                   *)

Alphabet == {"1", "2", "A", "-", "u00B2"}

Strings(alphabet, maxLen) ==
    UNION {[1..len -> alphabet] : len \in 0..maxLen}

\* "AB-12-34" and "001"
ExampleStrings == {<<"A", "B", "-", "1", "2", "-", "3", "4">>, <<"0", "0", "1">>}

Values ==
    {NaN}
        \cup {StrCell(s) : s \in Strings(Alphabet, MaxLen) \cup ExampleStrings}
        \cup {IntCell(i) : i \in (-MaxNum)..MaxNum}
        \cup {FloatCell(m) : m \in {x \in (-10 * MaxNum)..(10 * MaxNum) : x % 5 = 0}}

Trims == 0..MaxTrim

AccentAlphabet == {"J", "e", "u00E9", "u00DF", "u0301"}

\* "José"
Jose == <<"J", "o", "s", "u00E9">>

AccentValues ==
    {NaN, IntCell(7), FloatCell(15), StrCell(Jose)}
        \cup {StrCell(s) : s \in Strings(AccentAlphabet, MaxLen)}

DedupRows ==
    {[k |-> IntCell(i), v |-> StrCell(<<c>>)] : i \in {1, 2}, c \in {"a", "b", "c"}}

DedupTables ==
    {DataFrame(<<"k", "v">>, rows) :
        rows \in UNION {[1..len -> DedupRows] : len \in 0..MaxDedupRows}}

\* a call about to be made: its arguments, no result yet
Pending(fn, value, trim_start, trim_end, df) ==
    [fn |-> fn, value |-> value, trim_start |-> trim_start,
     trim_end |-> trim_end, df |-> df, done |-> FALSE, result |-> <<>>]

NoCall == Pending("none", NaN, 0, 0, EmptyDf)

\* the calls that take a value and the two trims
TrimmedCalls(fn, values) ==
    {Pending(fn, value, trim_start, trim_end, EmptyDf) :
        value \in values, trim_start \in Trims, trim_end \in Trims}

OtherCalls ==
    {Pending("remove_accents", value, 0, 0, EmptyDf) : value \in AccentValues}
        \cup {Pending("get_unique_records", NaN, 0, 0, df) : df \in DedupTables}

Returned(result) == [call EXCEPT !.done = TRUE, !.result = result]

NormalizeValue ==
    /\ call.fn = "normalize_value" /\ ~call.done
    /\ call' = Returned(normalize_value(call.value, call.trim_start, call.trim_end))
    /\ UNCHANGED <<data, widgets, session, run, disk, reruns>>

RemoveAccents ==
    /\ call.fn = "remove_accents" /\ ~call.done
    /\ call' = Returned(remove_accents(call.value))
    /\ UNCHANGED <<data, widgets, session, run, disk, reruns>>

GetUniqueRecords ==
    /\ call.fn = "get_unique_records" /\ ~call.done
    /\ call' = Returned(get_unique_records(call.df, "k"))
    /\ UNCHANGED <<data, widgets, session, run, disk, reruns>>

\* the preview of one cell of the selected column with trimming enabled;
\* dropna() leaves no null cell in the sample
PreviewSample ==
    /\ call.fn = "sample_normalized" /\ ~call.done
    /\ call' = Returned(sample_normalized(call.value, call.trim_start, call.trim_end))
    /\ UNCHANGED <<data, widgets, session, run, disk, reruns>>

InitPure ==
    /\ \/ call \in TrimmedCalls("normalize_value", Values)
       \/ call \in TrimmedCalls("sample_normalized", Values \ {NaN})
       \/ call \in OtherCalls
    /\ data = <<>>
    /\ widgets = <<>>
    /\ session = <<>>
    /\ run = <<>>
    /\ disk = {}
    /\ reruns = 0

NextPure == NormalizeValue \/ RemoveAccents \/ GetUniqueRecords \/ PreviewSample

SpecPure == InitPure /\ [][NextPure]_vars

----------------------------------------------------------------------------
(* Claims about the functions called on their own (SpecPure) *)

Returns(fn) == call.fn = fn /\ call.done

\* C1: for every input value and every non-negative trim_start and trim_end,
\* every character of what normalize_value returns is one of 0-9.
C1_OnlyAsciiDigits ==
    Returns("normalize_value") =>
        \A i \in 1..Len(call.result) : call.result[i] \in AsciiDigits

\* C2: for a float with zero fractional part, normalize_value returns what it
\* returns for the integer of the same value with the same trim_start and
\* trim_end.
C2_FloatAsItsInteger ==
    (Returns("normalize_value") /\ call.value.t = "float" /\ is_integer(call.value.n)) =>
        call.result =
            normalize_value(IntCell(FloatToInt(call.value.n)),
                            call.trim_start, call.trim_end)

\* the characters of s left after dropping the first trim_start and then the
\* last trim_end of what remains
Remaining(s, trim_start, trim_end) ==
    LET left == Len(s) - trim_start - trim_end
    IN [i \in 1..(IF left > 0 THEN left ELSE 0) |-> s[trim_start + i]]

\* C3: for a string, normalize_value returns the digits, in order, of the
\* substring left after dropping the first trim_start characters and then the
\* last trim_end characters; a trim that reaches or exceeds the remaining
\* length gives the empty string.
C3_StringTrimThenDigits ==
    (Returns("normalize_value") /\ call.value.t = "str") =>
        call.result =
            SelectSeq(Remaining(call.value.s, call.trim_start, call.trim_end), isdigit)

\* "AB-12-34" with trim_start=3, trim_end=1 gives "123"
C3_Witness ==
    /\ Returns("normalize_value")
    /\ call.value = StrCell(<<"A", "B", "-", "1", "2", "-", "3", "4">>)
    /\ call.trim_start = 3
    /\ call.trim_end = 1
    /\ call.result = <<"1", "2", "3">>

\* the rows of df that are the first with their value of column k
FirstIndices(rows) ==
    {i \in 1..Len(rows) : \A j \in 1..(i - 1) : rows[j].k # rows[i].k}

NthOf(indices, nth) ==
    CHOOSE i \in indices : Cardinality({j \in indices : j <= i}) = nth

\* C8: get_unique_records returns, in original order, the rows that are the
\* first occurrence of their key value, so each key value appears once.
C8_FirstOccurrenceWins ==
    Returns("get_unique_records") =>
        LET first == FirstIndices(call.df.rows)
            kept == call.result.rows
        IN /\ call.result.columns = call.df.columns
           /\ Len(kept) = Cardinality(first)
           /\ \A nth \in 1..Len(kept) :
                  kept[nth] = call.df.rows[NthOf(first, nth)]
           /\ \A m, nth \in 1..Len(kept) :
                  kept[m].k = kept[nth].k => m = nth

\* [(1,a),(2,b),(1,c)] gives [(1,a),(2,b)]
C8_Witness ==
    /\ Returns("get_unique_records")
    /\ call.df.rows = <<[k |-> IntCell(1), v |-> StrCell(<<"a">>)],
                        [k |-> IntCell(2), v |-> StrCell(<<"b">>)],
                        [k |-> IntCell(1), v |-> StrCell(<<"c">>)]>>
    /\ call.result.rows = <<[k |-> IntCell(1), v |-> StrCell(<<"a">>)],
                            [k |-> IntCell(2), v |-> StrCell(<<"b">>)]>>

----------------------------------------------------------------------------
(* The comparison block of main(): the rerun in which "Comparar Datos" is  *)
(* clicked. data is the pair of loaded tables (data1, data2), widgets the  *)
(* pair of selections (selected_column, additional_columns, trim_options), *)
(* session the result keys of st.session_state, run the locals of the      *)
(* last click (how it ended, matches, non_matches).                        *)

ResultKeys ==
    {"unique_matches", "unique_non_matches", "processed_data", "statistics",
     "final_length_stats1", "final_length_stats2"}

ZeroLengthStats == [min |-> 0, max |-> 0, mean_x100 |-> 0]

NoStatistics ==
    [total_records |-> 0, total_unique |-> 0, unique_matches |-> 0,
     unique_non_matches |-> 0, duplicate_matches |-> 0,
     duplicate_non_matches |-> 0]

\* st.session_state with none of the result keys set
NoSession ==
    [keys |-> {}, unique_matches |-> EmptyDf, unique_non_matches |-> EmptyDf,
     processed_data |-> <<>>, statistics |-> NoStatistics,
     final_length_stats1 |-> ZeroLengthStats,
     final_length_stats2 |-> ZeroLengthStats]

Ended(outcome, matches, non_matches) ==
    [outcome |-> outcome, matches |-> matches, non_matches |-> non_matches]

NoRun == Ended("none", EmptyDf, EmptyDf)

\* data_sources[idx]
DataSource(df, widget) ==
    [data |-> df, selected_column |-> widget.selected_column,
     additional_columns |-> widget.additional_columns,
     trim_options |-> widget.trim_options]

\* the all([...]) of the click: both tables loaded and both key columns
\* selected (an empty selection is falsy)
all_selected(data_sources) ==
    /\ data_sources[1].selected_column # ""
    /\ data_sources[2].selected_column # ""

\* df[column] and df[[...]] raise KeyError for a column the table lacks
missing_columns(source) ==
    {c \in {source.selected_column} \cup Range(source.additional_columns) :
        c \notin Range(source.data.columns)}

raises_KeyError(data_sources) ==
    missing_columns(data_sources[1]) \cup missing_columns(data_sources[2]) # {}

\* trim_options["trim_start"] if trim_options["enable"] else 0
trim_start_of(trim_options) ==
    IF trim_options.enable THEN trim_options.trim_start ELSE 0

trim_end_of(trim_options) ==
    IF trim_options.enable THEN trim_options.trim_end ELSE 0

\* [f"{col}_dataset{idx}" for col in selected_cols]
renamed(selected_cols, tag) ==
    [i \in 1..Len(selected_cols) |-> selected_cols[i] \o tag]

\* merge_data = normalized_data[['normalized_key'] + selected_cols] with the
\* extra columns renamed
merge_data(normalized_data, selected_cols, tag) ==
    LET columns == <<"normalized_key">> \o renamed(selected_cols, tag)
    IN DataFrame(columns,
          [i \in 1..Len(normalized_data.rows) |->
              [c \in Range(columns) |->
                  IF c = "normalized_key"
                  THEN normalized_data.rows[i]["normalized_key"]
                  ELSE LET k == CHOOSE k \in 1..Len(selected_cols) :
                                    selected_cols[k] \o tag = c
                       IN normalized_data.rows[i][selected_cols[k]]]])

\* the row of an inner merge made of a left row and a right row
merged_row(columns, left, l, right, r) ==
    [c \in Range(columns) |->
        IF c \in Range(left.columns) THEN left.rows[l][c] ELSE right.rows[r][c]]

\* the right rows joined to left row l, in right order
RECURSIVE joined_to(_, _, _, _, _)
joined_to(columns, left, l, right, r) ==
    IF r > Len(right.rows) THEN <<>>
    ELSE (IF right.rows[r]["normalized_key"] = left.rows[l]["normalized_key"]
          THEN <<merged_row(columns, left, l, right, r)>>
          ELSE <<>>)
         \o joined_to(columns, left, l, right, r + 1)

\* a merge that joins each left row to its first right row only
pd_merge_first_only(left, right) ==
    LET columns == left.columns \o SelectSeq(right.columns, LAMBDA c : c # "normalized_key")
        first(l) == LET js == joined_to(columns, left, l, right, 1)
                    IN IF js = <<>> THEN <<>> ELSE <<Head(js)>>
    IN DataFrame(columns,
          Flatten([l \in 1..Len(left.rows) |-> first(l)]))

\* a merge that gives the right rows of a left row in reverse right order
pd_merge_right_reversed(left, right) ==
    LET columns == left.columns \o SelectSeq(right.columns, LAMBDA c : c # "normalized_key")
        reversed(l) == LET js == joined_to(columns, left, l, right, 1)
                       IN [i \in 1..Len(js) |-> js[Len(js) + 1 - i]]
    IN DataFrame(columns,
          Flatten([l \in 1..Len(left.rows) |-> reversed(l)]))

\* a merge that joins no row whose key is the empty string
pd_merge_without_empty_keys(left, right) ==
    LET columns == left.columns \o SelectSeq(right.columns, LAMBDA c : c # "normalized_key")
        joined(l) == IF left.rows[l]["normalized_key"].s = <<>> THEN <<>>
                     ELSE joined_to(columns, left, l, right, 1)
    IN DataFrame(columns,
          Flatten([l \in 1..Len(left.rows) |-> joined(l)]))

\* pd.merge(left, right, on='normalized_key', how='inner'): every left row
\* with every right row of the same key, the order of the left keys kept
pd_merge(left, right) ==
    LET columns == left.columns \o SelectSeq(right.columns, LAMBDA c : c # "normalized_key")
    IN DataFrame(columns,
          Flatten([l \in 1..Len(left.rows) |->
                      joined_to(columns, left, l, right, 1)]))

\* a complement taken against the first row of merge_data1 only
non_matching_rows_against_first(merge_data2, merge_data1, selected_cols1_renamed) ==
    LET columns_order == merge_data2.columns \o selected_cols1_renamed
        absent(row) == \/ merge_data1.rows = <<>>
                       \/ row["normalized_key"] # merge_data1.rows[1]["normalized_key"]
        kept == SelectSeq(merge_data2.rows, absent)
    IN DataFrame(columns_order,
          [i \in 1..Len(kept) |->
              [c \in Range(columns_order) |->
                  IF c \in Range(merge_data2.columns) THEN kept[i][c] ELSE NaN]])

\* merge_data2[~merge_data2['normalized_key'].isin(merge_data1['normalized_key'])]
\* then "non_matches[col_renamed] = np.nan" for each renamed table-1 extra,
\* then non_matches[columns_order]
non_matching_rows(merge_data2, merge_data1, selected_cols1_renamed) ==
    LET columns_order == merge_data2.columns \o selected_cols1_renamed
        absent(row) == row["normalized_key"] \notin
                           Range(Column(merge_data1, "normalized_key"))
        kept == SelectSeq(merge_data2.rows, absent)
    IN DataFrame(columns_order,
          [i \in 1..Len(kept) |->
              [c \in Range(columns_order) |->
                  IF c \in Range(merge_data2.columns) THEN kept[i][c] ELSE NaN]])

\* select_dtypes(include=['object']): a column holding text has dtype object
object_columns(df) ==
    {c \in Range(df.columns) : \E i \in 1..Len(df.rows) : df.rows[i][c].t = "str"}

\* for col in df_out.select_dtypes(include=['object']).columns:
\*     df_out[col] = df_out[col].apply(remove_accents)
strip_accents(df_out) ==
    DataFrame(df_out.columns,
        [i \in 1..Len(df_out.rows) |->
            [c \in Range(df_out.columns) |->
                IF c \in object_columns(df_out)
                THEN remove_accents(df_out.rows[i][c])
                ELSE df_out.rows[i][c]]])

\* df.astype(str): every cell becomes str(cell), a NaN the text "nan"
astype_str(df) ==
    DataFrame(df.columns,
        [i \in 1..Len(df.rows) |->
            [c \in Range(df.columns) |-> StrCell(py_str(df.rows[i][c]))]])

RECURSIVE Sum(_)
Sum(seq) == IF seq = <<>> THEN 0 ELSE Head(seq) + Sum(Tail(seq))

Min(S) == CHOOSE x \in S : \A y \in S : x <= y

Max(S) == CHOOSE x \in S : \A y \in S : x >= y

\* calculate_length_stats: the mean, rounded to 2 decimals, is kept in
\* hundredths
calculate_length_stats(series) ==
    LET present == SelectSeq(series, LAMBDA cell : ~pd_isna(cell))
        lengths == [i \in 1..Len(present) |-> Len(py_str(present[i]))]
    IN IF lengths = <<>> THEN ZeroLengthStats
       ELSE [min |-> Min(Range(lengths)), max |-> Max(Range(lengths)),
             mean_x100 |-> (200 * Sum(lengths) + Len(lengths)) \div (2 * Len(lengths))]

\* the two sheets written to the Excel file, each named with its row count
to_excel(unique_matches, unique_non_matches) ==
    <<[sheet_name |-> "Coincidencias_unicas_", count |-> Len(unique_matches.rows),
       df |-> unique_matches],
      [sheet_name |-> "No_coincidencias_unicas_", count |-> Len(unique_non_matches.rows),
       df |-> unique_non_matches]>>

\* an abort that comes after statistics has been stored
aborted_after_storing_statistics(sess, data_sources) ==
    [session |-> [sess EXCEPT
                    !.keys = @ \cup {"statistics"},
                    !.statistics = [NoStatistics EXCEPT
                        !.total_records = Len(data_sources[2].data.rows)]],
     run |-> Ended("KeyError", EmptyDf, EmptyDf),
     data |-> <<data_sources[1].data, data_sources[2].data>>]

\* lines 374-406 raise before any st.session_state assignment, and nothing in
\* main() catches: the rerun ends there. The KeyError comes from a read
\* (df_copy[column_name], normalized_data[[...]]), so no table was assigned to
aborted(sess, data_sources) ==
    [session |-> sess, run |-> Ended("KeyError", EmptyDf, EmptyDf),
     data |-> <<data_sources[1].data, data_sources[2].data>>]

\* lines 374-468 when no column is missing
completed(sess, data_sources) ==
    LET source1 == data_sources[1]
        source2 == data_sources[2]
        normalized_data1 ==
            normalize_column(source1.data, source1.selected_column, "normalized_key",
                             trim_start_of(source1.trim_options),
                             trim_end_of(source1.trim_options))
        normalized_data2 ==
            normalize_column(source2.data, source2.selected_column, "normalized_key",
                             trim_start_of(source2.trim_options),
                             trim_end_of(source2.trim_options))
        selected_cols1 == source1.additional_columns
        selected_cols2 == source2.additional_columns
        merge_data1 == merge_data(normalized_data1, selected_cols1, "_dataset1")
        merge_data2 == merge_data(normalized_data2, selected_cols2, "_dataset2")
        matches == pd_merge(merge_data2, merge_data1)
        non_matches ==
            non_matching_rows(merge_data2, merge_data1,
                              renamed(selected_cols1, "_dataset1"))
        unique_matches ==
            astype_str(strip_accents(get_unique_records(matches, "normalized_key")))
        unique_non_matches ==
            astype_str(strip_accents(get_unique_records(non_matches, "normalized_key")))
    IN [session |->
            [keys |-> sess.keys \cup ResultKeys,
             unique_matches |-> unique_matches,
             unique_non_matches |-> unique_non_matches,
             processed_data |-> to_excel(unique_matches, unique_non_matches),
             statistics |->
                [total_records |-> Len(source2.data.rows),
                 total_unique |->
                    Len(get_unique_records(source2.data, source2.selected_column).rows),
                 unique_matches |-> Len(unique_matches.rows),
                 unique_non_matches |-> Len(unique_non_matches.rows),
                 duplicate_matches |-> Len(matches.rows) - Len(unique_matches.rows),
                 duplicate_non_matches |->
                    Len(non_matches.rows) - Len(unique_non_matches.rows)],
             final_length_stats1 |->
                calculate_length_stats(Column(unique_matches, "normalized_key")),
             final_length_stats2 |->
                calculate_length_stats(Column(unique_non_matches, "normalized_key"))],
        run |-> Ended("ok", matches, non_matches),
        \* data1 and data2, the tables st.session_state holds, after the run:
        \* only normalize_column is handed them; merge_data, non_matches and
        \* the unique tables are new tables (df[[...]], .copy(), drop_duplicates)
        data |->
            <<normalize_column_leaves(source1.data, source1.selected_column,
                                      "normalized_key",
                                      trim_start_of(source1.trim_options),
                                      trim_end_of(source1.trim_options)),
              normalize_column_leaves(source2.data, source2.selected_column,
                                      "normalized_key",
                                      trim_start_of(source2.trim_options),
                                      trim_end_of(source2.trim_options))>>]

\* if st.button("Comparar Datos"): if all([...]): ...
compare_block(sess, data_sources) ==
    IF ~all_selected(data_sources)
    THEN [session |-> sess, run |-> Ended("skipped", EmptyDf, EmptyDf),
          data |-> <<data_sources[1].data, data_sources[2].data>>]
    ELSE IF raises_KeyError(data_sources)
         THEN aborted(sess, data_sources)
         ELSE completed(sess, data_sources)

----------------------------------------------------------------------------
(* The tables and selections a comparison starts from *)

Text(chars) == StrCell(chars)

Row(id, name) == [id |-> id, name |-> name]

TablesOf(rows) ==
    {DataFrame(<<"id", "name">>, seq) :
        seq \in UNION {[1..len -> rows] : len \in 0..MaxRows}}

\* keys that repeat, with different extras
Rows1 ==
    {Row(Text(<<"1">>), Text(<<"a">>)), Row(Text(<<"1">>), Text(<<"b">>)),
     Row(Text(<<"1", "2">>), Text(<<"a">>))}

Rows2 ==
    {Row(Text(<<"1">>), Text(<<"c">>)), Row(Text(<<"1">>), Text(<<"d">>)),
     Row(Text(<<"3">>), Text(<<"e">>))}

\* keys and extras of several types, with non-ASCII characters
MixedRows1 ==
    {Row(Text(<<"2">>), Text(Jose)), Row(FloatCell(30), IntCell(7))}

MixedRows2 ==
    {Row(Text(<<"u00B2">>), Text(<<"u00DF">>)), Row(Text(<<"2">>), Text(Jose)),
     Row(NaN, NaN)}

\* table1 keys "001", "002" and table2 keys "1", "2", "3"
LeadingZeros1 ==
    DataFrame(<<"id", "name">>,
        <<Row(Text(<<"0", "0", "1">>), Text(<<"a">>)),
          Row(Text(<<"0", "0", "2">>), Text(<<"b">>))>>)

LeadingZeros2 ==
    DataFrame(<<"id", "name">>,
        <<Row(Text(<<"1">>), Text(<<"c">>)), Row(Text(<<"2">>), Text(<<"d">>)),
          Row(Text(<<"3">>), Text(<<"e">>))>>)

\* table1 keys "A-", null and table2 keys null, "B", "7": without digits, or
\* with none left once the last character is trimmed
EmptyKeys1 ==
    DataFrame(<<"id", "name">>,
        <<Row(Text(<<"A", "-">>), Text(<<"a">>)), Row(NaN, Text(<<"b">>))>>)

EmptyKeys2 ==
    DataFrame(<<"id", "name">>,
        <<Row(NaN, Text(<<"c">>)), Row(Text(<<"B">>), Text(<<"d">>)),
          Row(Text(<<"7">>), Text(<<"e">>))>>)

DataPairs ==
    (TablesOf(Rows1) \X TablesOf(Rows2))
        \cup (TablesOf(MixedRows1) \X TablesOf(MixedRows2))
        \cup {<<LeadingZeros1, LeadingZeros2>>, <<EmptyKeys1, EmptyKeys2>>}

NoTrim == [enable |-> FALSE, trim_start |-> 0, trim_end |-> 0]

Widget(selected_column, additional_columns, trim_options) ==
    [selected_column |-> selected_column,
     additional_columns |-> additional_columns, trim_options |-> trim_options]

\* "zz" is a column of no table; "" is no column selected
WidgetChoices ==
    {Widget("id", <<>>, NoTrim),
     Widget("id", <<"name">>, NoTrim),
     Widget("id", <<"name">>, [enable |-> TRUE, trim_start |-> 0, trim_end |-> 1]),
     Widget("zz", <<>>, NoTrim),
     Widget("id", <<"zz">>, NoTrim),
     Widget("", <<>>, NoTrim)}

\* the results an earlier comparison left in st.session_state
PriorSession ==
    completed(NoSession,
              <<DataSource(LeadingZeros2, Widget("id", <<>>, NoTrim)),
                DataSource(LeadingZeros1, Widget("id", <<>>, NoTrim))>>).session

data_sources == <<DataSource(data[1], widgets[1]), DataSource(data[2], widgets[2])>>

Init ==
    /\ call = NoCall
    /\ data \in DataPairs
    /\ widgets \in WidgetChoices \X WidgetChoices
    /\ session \in {NoSession, PriorSession}
    /\ run = NoRun
    /\ disk = {}
    /\ reruns = 0

\* the rerun of main() in which the button is clicked
Compare ==
    /\ LET after == compare_block(session, data_sources)
       IN /\ session' = after.session
          /\ run' = after.run
          /\ data' = after.data
    /\ UNCHANGED <<call, widgets, disk, reruns>>

Next == Compare

Spec == Init /\ [][Next]_vars

\* C18: with trimming enabled, the preview of a non-null cell is the
\* normalized_key the comparison computes for that cell with the same
\* trim_start and trim_end.
C18_PreviewIsComparedKey ==
    (Returns("sample_normalized") /\ ~pd_isna(call.value)) =>
        call.result = normalize_value(call.value, call.trim_start, call.trim_end)

----------------------------------------------------------------------------
(* Claims about the comparison (Spec) *)

Stored == ResultKeys \subseteq session.keys

\* the last click completed, so session holds the results for data and widgets
Compared == run.outcome = "ok" /\ Stored

NoTrimming == ~widgets[1].trim_options.enable /\ ~widgets[2].trim_options.enable

LeadingZerosScenario ==
    /\ Compared
    /\ data = <<LeadingZeros1, LeadingZeros2>>
    /\ NoTrimming

Counts(unique_matches, unique_non_matches, duplicate_matches, duplicate_non_matches) ==
    /\ session.statistics.unique_matches = unique_matches
    /\ session.statistics.unique_non_matches = unique_non_matches
    /\ session.statistics.duplicate_matches = duplicate_matches
    /\ session.statistics.duplicate_non_matches = duplicate_non_matches

\* C4 as stated: with table1 keys "001", "002" and table2 keys "1", "2", "3"
\* and no trimming the comparison gives 2 unique matches, 1 unique non-match
\* and no duplicates.
C4_LeadingZerosIgnored == LeadingZerosScenario => Counts(2, 1, 0, 0)

KeysOf(df) == Column(df, "normalized_key")

\* C4 amended: leading zeros are kept, so no key of that scenario matches: 0
\* unique matches, 3 unique non-matches ("1", "2", "3"), no duplicates.
C4_LeadingZerosKept ==
    LeadingZerosScenario =>
        /\ Counts(0, 3, 0, 0)
        /\ KeysOf(session.unique_non_matches) =
               <<Text(<<"1">>), Text(<<"2">>), Text(<<"3">>)>>

C4_Witness == LeadingZerosScenario /\ Len(session.unique_non_matches.rows) = 3

NoRepeatedKey(df) ==
    \A i, j \in 1..Len(df.rows) :
        df.rows[i]["normalized_key"] = df.rows[j]["normalized_key"] => i = j

\* C5: in unique_matches and unique_non_matches as stored and exported, no two
\* rows of the same table have the same normalized_key.
C5_ReturnedKeysUnique ==
    Compared =>
        /\ NoRepeatedKey(session.unique_matches)
        /\ NoRepeatedKey(session.unique_non_matches)
        /\ \A s \in 1..Len(session.processed_data) :
               NoRepeatedKey(session.processed_data[s].df)

\* the normalized keys of table idx under its selection, computed cell by cell
NormalizedKeys(idx) ==
    LET cells == Column(data[idx], widgets[idx].selected_column)
    IN [i \in 1..Len(cells) |->
           Text(normalize_value(cells[i],
                                trim_start_of(widgets[idx].trim_options),
                                trim_end_of(widgets[idx].trim_options)))]

Occurrences(key, keys) == Cardinality({i \in 1..Len(keys) : keys[i] = key})

CommonKeys == Range(NormalizedKeys(2)) \cap Range(NormalizedKeys(1))

RECURSIVE SumOfProducts(_)
SumOfProducts(keys) ==
    IF keys = {} THEN 0
    ELSE LET key == CHOOSE k \in keys : TRUE
         IN Occurrences(key, NormalizedKeys(2)) * Occurrences(key, NormalizedKeys(1))
                + SumOfProducts(keys \ {key})

ResultColumns ==
    <<"normalized_key">> \o renamed(widgets[2].additional_columns, "_dataset2")
        \o renamed(widgets[1].additional_columns, "_dataset1")

\* C6: matches is the inner join on normalized_key of the full table2
\* projection (left) with the full table1 projection (right): a key occurring
\* a times in table2 and b times in table1 gives a*b rows, and
\* duplicate_matches is the sum of a*b over the common keys minus the number
\* of common keys.
C6_JoinIsCartesianPerKey ==
    Compared =>
        /\ run.matches.columns = ResultColumns
        /\ \A key \in Range(NormalizedKeys(2)) \cup Range(NormalizedKeys(1)) :
               Occurrences(key, KeysOf(run.matches)) =
                   Occurrences(key, NormalizedKeys(2))
                       * Occurrences(key, NormalizedKeys(1))
        /\ Len(run.matches.rows) = SumOfProducts(CommonKeys)
        /\ session.statistics.duplicate_matches =
               SumOfProducts(CommonKeys) - Cardinality(CommonKeys)

\* a key twice in table2 and twice in table1: four rows, three of them
\* duplicates
C6_Witness ==
    /\ Compared
    /\ \E key \in CommonKeys :
           /\ Occurrences(key, NormalizedKeys(2)) = 2
           /\ Occurrences(key, NormalizedKeys(1)) = 2
    /\ session.statistics.duplicate_matches = 3

\* the rows of table2 whose key table1 lacks, in table2 order
NonMatchingIndices ==
    {i \in 1..Len(data[2].rows) :
        NormalizedKeys(2)[i] \notin Range(NormalizedKeys(1))}

\* non_matches before dedup: table2's rows without a table1 key, in table2
\* order, columns [normalized_key, table2 extras, table1 extras], the table1
\* extras null
NonMatchesAreTable2Complement ==
    Compared =>
        /\ run.non_matches.columns = ResultColumns
        /\ Len(run.non_matches.rows) = Cardinality(NonMatchingIndices)
        /\ \A nth \in 1..Len(run.non_matches.rows) :
               LET i == NthOf(NonMatchingIndices, nth)
                   row == run.non_matches.rows[nth]
               IN /\ row["normalized_key"] = NormalizedKeys(2)[i]
                  /\ \A c \in Range(widgets[2].additional_columns) :
                         row[c \o "_dataset2"] = data[2].rows[i][c]
                  /\ \A c \in Range(widgets[1].additional_columns) :
                         row[c \o "_dataset1"] = NaN

\* C7: non_matches is exactly that complement, and in every row of the
\* returned unique_non_matches every table1-side extra cell is null.
C7_NonMatchExtrasNull ==
    /\ NonMatchesAreTable2Complement
    /\ Compared =>
           \A i \in 1..Len(session.unique_non_matches.rows) :
               \A c \in Range(widgets[1].additional_columns) :
                   pd_isna(session.unique_non_matches.rows[i][c \o "_dataset1"])

ColumnAbsent ==
    \E idx \in 1..2 :
        \E c \in {widgets[idx].selected_column}
                    \cup Range(widgets[idx].additional_columns) :
            c \notin Range(data[idx].columns)

BothSelected ==
    widgets[1].selected_column # "" /\ widgets[2].selected_column # ""

\* C9: when the key column or a selected extra column is absent from its
\* table, the click ends in an error and leaves every session result as it
\* was.
C9_AbortWritesNothing ==
    [][(BothSelected /\ ColumnAbsent) =>
            (session' = session /\ run'.outcome = "KeyError")]_vars

\* results of an earlier comparison survive the aborted one
C9_Witness ==
    /\ run.outcome = "KeyError"
    /\ ColumnAbsent
    /\ session = PriorSession
    /\ Stored

\* the combining diacritical marks among the characters
CombiningMarks == {"u0301"}

\* canonical decomposition of one character
NFD(c) == IF c = "u00E9" THEN <<"e", "u0301">> ELSE <<c>>

\* the text with only its combining marks removed
WithoutMarks(chars) ==
    SelectSeq(Flatten([i \in 1..Len(chars) |-> NFD(chars[i])]),
              LAMBDA c : c \notin CombiningMarks)

\* what C10 expects of a returned cell: a str without its marks, any other
\* cell as it is (rendered as text)
ExpectedCell(cell) ==
    IF cell.t = "str" THEN Text(WithoutMarks(cell.s)) ELSE Text(py_str(cell))

ExtrasOnlyLoseMarks(df) ==
    \A i \in 1..Len(df.rows) :
        \A idx \in 1..2 :
            \A c \in Range(widgets[idx].additional_columns) :
                LET col == c \o (IF idx = 1 THEN "_dataset1" ELSE "_dataset2")
                IN col \in Range(df.columns) =>
                       \/ \E j \in 1..Len(data[idx].rows) :
                              df.rows[i][col] = ExpectedCell(data[idx].rows[j][c])
                       \/ df.rows[i][col] = Text(py_str(NaN))

\* C10: every string cell of unique_matches and unique_non_matches is the
\* original cell with only its combining marks removed, every base character
\* kept in order; non-string cells are unaffected.
C10_OnlyMarksRemoved ==
    Compared =>
        /\ ExtrasOnlyLoseMarks(session.unique_matches)
        /\ ExtrasOnlyLoseMarks(session.unique_non_matches)

\* the orders the rows of a table of n rows can be put in
RowOrders(n) ==
    {p \in [1..n -> 1..n] : \A i, j \in 1..n : p[i] = p[j] => i = j}

Shuffled(df, p) == DataFrame(df.columns, [i \in 1..Len(df.rows) |-> df.rows[p[i]]])

\* the statistics a comparison of the two tables shuffled by p1 and p2 stores
StatisticsShuffled(p1, p2) ==
    completed(NoSession,
              <<DataSource(Shuffled(data[1], p1), widgets[1]),
                DataSource(Shuffled(data[2], p2), widgets[2])>>).session.statistics

\* C11: the six row counts of statistics are the same for every order of the
\* rows of table1 and every order of the rows of table2.
C11_CountsIgnoreRowOrder ==
    Compared =>
        \A p1 \in RowOrders(Len(data[1].rows)) :
            \A p2 \in RowOrders(Len(data[2].rows)) :
                StatisticsShuffled(p1, p2) = session.statistics

\* both tables have rows that differ in key, and the comparison finds a match
\* and a non-match
C11_Witness ==
    /\ Compared
    /\ \A idx \in 1..2 :
           \E i, j \in 1..Len(data[idx].rows) :
               NormalizedKeys(idx)[i] # NormalizedKeys(idx)[j]
    /\ session.statistics.unique_matches > 0
    /\ session.statistics.unique_non_matches > 0

Table2KeysPartitionedBeforeStrip ==
    Compared =>
        LET before1 == KeysOf(get_unique_records(run.matches, "normalized_key"))
            before2 == KeysOf(get_unique_records(run.non_matches, "normalized_key"))
        IN /\ \A key \in Range(NormalizedKeys(2)) :
                  /\ (key \in Range(before1)) # (key \in Range(before2))
                  /\ (key \in Range(before1)) <=> (key \in Range(NormalizedKeys(1)))
           /\ session.statistics.unique_matches
                  + session.statistics.unique_non_matches =
                  Cardinality(Range(NormalizedKeys(2)))

\* C15: after a completed comparison each distinct normalized key of table2
\* is in exactly one of unique_matches and unique_non_matches, in
\* unique_matches exactly when table1 has the key, and the two row counts add
\* up to the number of distinct normalized keys of table2.
C15_Table2KeysPartitioned ==
    Compared =>
        /\ \A key \in Range(NormalizedKeys(2)) :
               /\ (key \in Range(KeysOf(session.unique_matches)))
                      # (key \in Range(KeysOf(session.unique_non_matches)))
               /\ (key \in Range(KeysOf(session.unique_matches)))
                      <=> (key \in Range(NormalizedKeys(1)))
        /\ session.statistics.unique_matches + session.statistics.unique_non_matches =
               Cardinality(Range(NormalizedKeys(2)))

\* merge_data of table idx under its selection
Projection(idx) ==
    merge_data(normalize_column(data[idx], widgets[idx].selected_column,
                                "normalized_key",
                                trim_start_of(widgets[idx].trim_options),
                                trim_end_of(widgets[idx].trim_options)),
               widgets[idx].additional_columns,
               IF idx = 1 THEN "_dataset1" ELSE "_dataset2")

\* the first row of table idx whose normalized key is key
FirstRowWith(idx, key) ==
    data[idx].rows[Min({i \in 1..Len(data[idx].rows) : NormalizedKeys(idx)[i] = key})]

\* C16: the first-wins dedup of the join of the full table2 and table1
\* projections is the inner join on normalized_key of the deduplicated table2
\* projection with the deduplicated table1 projection, so the row kept for a
\* key carries the extras of the first table2 row and of the first table1 row
\* with that key; the stored unique_matches is that table with accents
\* stripped and cells as text.
C16_DedupOfJoinIsJoinOfDedups ==
    Compared =>
        LET unique1 == get_unique_records(Projection(1), "normalized_key")
            unique2 == get_unique_records(Projection(2), "normalized_key")
            joined == pd_merge(unique2, unique1)
            deduped == get_unique_records(run.matches, "normalized_key")
        IN /\ deduped = joined
           /\ session.unique_matches = astype_str(strip_accents(joined))
           /\ \A i \in 1..Len(deduped.rows) :
                  LET row == deduped.rows[i]
                  IN /\ \A c \in Range(widgets[2].additional_columns) :
                            row[c \o "_dataset2"] =
                                FirstRowWith(2, row["normalized_key"])[c]
                     /\ \A c \in Range(widgets[1].additional_columns) :
                            row[c \o "_dataset1"] =
                                FirstRowWith(1, row["normalized_key"])[c]

\* a key on two rows of each table, the extras of the rows differing and
\* selected on both sides: four joined rows, of which the first is kept
C16_Witness ==
    /\ Compared
    /\ \A idx \in 1..2 :
           /\ widgets[idx].additional_columns = <<"name">>
           /\ Len(data[idx].rows) = 2
           /\ NormalizedKeys(idx)[1] = NormalizedKeys(idx)[2]
           /\ data[idx].rows[1]["name"] # data[idx].rows[2]["name"]
    /\ Len(run.matches.rows) = 4
    /\ Len(session.unique_matches.rows) = 1

EmptyKey == Text(<<>>)

\* C17: when a table2 key normalizes to the empty string, its rows are joined
\* to the table1 rows whose key is empty too, as for any key: they are matches
\* exactly when table1 has such a row and non-matches otherwise, and they
\* become a single row of the unique result.
C17_EmptyKeyJoinsLikeAnyKey ==
    (Compared /\ EmptyKey \in Range(NormalizedKeys(2))) =>
        LET in1 == EmptyKey \in Range(NormalizedKeys(1))
            n1 == Occurrences(EmptyKey, NormalizedKeys(1))
            n2 == Occurrences(EmptyKey, NormalizedKeys(2))
            unique_matches == get_unique_records(run.matches, "normalized_key")
            unique_non_matches == get_unique_records(run.non_matches, "normalized_key")
        IN /\ Occurrences(EmptyKey, KeysOf(run.matches)) = n2 * n1
           /\ Occurrences(EmptyKey, KeysOf(run.non_matches)) = IF in1 THEN 0 ELSE n2
           /\ Occurrences(EmptyKey, KeysOf(unique_matches)) = IF in1 THEN 1 ELSE 0
           /\ Occurrences(EmptyKey, KeysOf(unique_non_matches)) = IF in1 THEN 0 ELSE 1
           /\ EmptyKey \in Range(KeysOf(IF in1 THEN session.unique_matches
                                        ELSE session.unique_non_matches))

\* table2 keys null, "B" and "7" with the last character trimmed are all
\* empty, table1 keys "A-" and null too: six joined rows, one unique match
C17_Witness ==
    /\ Compared
    /\ data = <<EmptyKeys1, EmptyKeys2>>
    /\ widgets[2].trim_options.enable
    /\ Range(NormalizedKeys(2)) = {EmptyKey}
    /\ Len(run.matches.rows) = 6
    /\ Len(session.unique_matches.rows) = 1
    /\ session.unique_non_matches.rows = <<>>

----------------------------------------------------------------------------
(* The data-source tabs of main(): every interaction with a widget reruns   *)
(* the script, which loads or reuses the table of each source. A table is  *)
(* named by what it was read from: [source, content, part]. disk holds the *)
(* temporary files that exist, reruns counts the reruns so far.            *)
(* Streamlit gives every upload an UploadedFile with a new file_id, equal  *)
(* (==) to the UploadedFile of the same upload on later reruns, and resets *)
(* a widget that a rerun does not render.                                   *)

ExcelFiles == {"a.xlsx"}

CsvFiles == {"b.csv"}

\* pd.ExcelFile(uploaded_file).sheet_names
sheet_names == <<"Sheet1", "Sheet2">>

DbFiles == {"c.db", "d.db"}

DefaultQuery == "SELECT * FROM ConsolidatedData;"

Queries == {DefaultQuery, "SELECT * FROM Other;"}

UploadedFile(name, file_id) == [name |-> name, file_id |-> file_id]

\* an uploader with no file: st.file_uploader returns None
NoFile == UploadedFile("", 0)

\* sheet_name = None
NoSheet == ""

TableOf(source, content, part) ==
    [source |-> source, content |-> content, part |-> part]

\* data = None
None == TableOf("none", "", "")

\* pd.read_csv(file) or pd.read_excel(file, sheet_name=sheet_name); the
\* st.cache_data entry of the same file and sheet holds the same table
load_data(file, sheet_name) ==
    IF file.name \in CsvFiles THEN TableOf("file", file.name, NoSheet)
    ELSE TableOf("file", file.name, sheet_name)

\* pd.read_sql(query, sqlite3.connect(db_file_path)): the table read from
\* what the file at db_file_path holds
load_db_data(db_file_path, query) == TableOf("db", db_file_path.content, query)

\* tempfile.NamedTemporaryFile(delete=False, suffix=".db") of rerun n for
\* source idx, with uploaded_db.getbuffer() written to it
NamedTemporaryFile(idx, n, uploaded_db) ==
    [idx |-> idx, rerun |-> n, content |-> uploaded_db.name]

\* the widgets of one tab as the first run renders them
DefaultWidgets ==
    [source |-> "Archivo Excel/CSV", uploaded_file |-> NoFile,
     sheet |-> sheet_names[1], uploaded_db |-> NoFile, query |-> DefaultQuery]

\* the data keys of st.session_state for one source, none set
NoData ==
    [keys |-> {}, data |-> None, data_file |-> NoFile, data_sheet_name |-> NoSheet,
     data_db_file |-> NoFile, data_query |-> ""]

\* st.session_state.get(f'data{idx}')
session_get_data(sess) == IF "data" \in sess.keys THEN sess.data ELSE None

\* lines 235-263: the file tab
file_tab(w, sess) ==
    LET uploaded_file == w.uploaded_file
        sheet_name == IF uploaded_file.name \in ExcelFiles THEN w.sheet ELSE NoSheet
        reload_data == \/ "data_file" \notin sess.keys
                       \/ sess.data_file # uploaded_file
        after == IF reload_data
                 THEN [sess EXCEPT
                          !.keys = @ \cup {"data", "data_file", "data_sheet_name"},
                          !.data = load_data(uploaded_file, sheet_name),
                          !.data_file = uploaded_file,
                          !.data_sheet_name = sheet_name]
                 ELSE sess
    IN IF uploaded_file = NoFile
       THEN [session |-> sess, data |-> None, disk |-> {}]
       ELSE [session |-> after, data |-> session_get_data(after), disk |-> {}]

\* lines 276-305: the database tab; nothing deletes tmp_path
db_tab(idx, w, sess, n) ==
    LET uploaded_db == w.uploaded_db
        tmp_path == NamedTemporaryFile(idx, n, uploaded_db)
        query == w.query
        reload_data == \/ "data_db_file" \notin sess.keys
                       \/ sess.data_db_file # uploaded_db
                       \/ "data_query" \notin sess.keys
                       \/ sess.data_query # query
        after == IF reload_data
                 THEN [sess EXCEPT
                          !.keys = @ \cup {"data", "data_db_file", "data_query"},
                          !.data = load_db_data(tmp_path, query),
                          !.data_db_file = uploaded_db,
                          !.data_query = query]
                 ELSE sess
    IN IF uploaded_db = NoFile
       THEN [session |-> sess, data |-> None, disk |-> {}]
       ELSE [session |-> after, data |-> session_get_data(after), disk |-> {tmp_path}]

\* one pass of "for idx, tab in enumerate(tabs, start=1)"
source_tab(idx, w, sess, n) ==
    IF w.source = "Archivo Excel/CSV" THEN file_tab(w, sess) ELSE db_tab(idx, w, sess, n)

\* the rerun of main() that follows an interaction leaving the widgets as w
Rerun(w) ==
    LET n == reruns + 1
        tab(idx) == source_tab(idx, w[idx], session[idx], n)
    IN /\ reruns < MaxReruns
       /\ widgets' = w
       /\ session' = [idx \in 1..2 |-> tab(idx).session]
       /\ data' = [idx \in 1..2 |-> tab(idx).data]
       /\ disk' = disk \cup tab(1).disk \cup tab(2).disk
       /\ reruns' = n
       /\ UNCHANGED <<call, run>>

\* the other source type is chosen: the widgets of the type left are no longer
\* rendered and start again
SelectSource ==
    \E idx \in 1..2 : \E source \in {"Archivo Excel/CSV", "Base de Datos SQLite"} :
        /\ source # widgets[idx].source
        /\ Rerun([widgets EXCEPT ![idx] = [DefaultWidgets EXCEPT !.source = source]])

\* a file is dropped on the file uploader; the sheet selectbox of an Excel
\* file starts at the first sheet
UploadFile ==
    \E idx \in 1..2 : \E name \in ExcelFiles \cup CsvFiles :
        /\ widgets[idx].source = "Archivo Excel/CSV"
        /\ Rerun([widgets EXCEPT
                     ![idx].uploaded_file = UploadedFile(name, reruns + 1),
                     ![idx].sheet = sheet_names[1]])

\* another sheet of the uploaded Excel file is chosen
SelectSheet ==
    \E idx \in 1..2 : \E sheet \in Range(sheet_names) :
        /\ widgets[idx].source = "Archivo Excel/CSV"
        /\ widgets[idx].uploaded_file.name \in ExcelFiles
        /\ sheet # widgets[idx].sheet
        /\ Rerun([widgets EXCEPT ![idx].sheet = sheet])

\* a database is dropped on the database uploader; the query text area shows
\* the query it held, the default one when it was not rendered before
UploadDb ==
    \E idx \in 1..2 : \E name \in DbFiles :
        /\ widgets[idx].source = "Base de Datos SQLite"
        /\ Rerun([widgets EXCEPT ![idx].uploaded_db = UploadedFile(name, reruns + 1)])

\* the SQL query is edited
EditQuery ==
    \E idx \in 1..2 : \E query \in Queries :
        /\ widgets[idx].source = "Base de Datos SQLite"
        /\ widgets[idx].uploaded_db # NoFile
        /\ query # widgets[idx].query
        /\ Rerun([widgets EXCEPT ![idx].query = query])

\* the first run of the script: nothing uploaded yet
InitUI ==
    /\ call = NoCall
    /\ run = NoRun
    /\ widgets = <<DefaultWidgets, DefaultWidgets>>
    /\ session = <<NoData, NoData>>
    /\ data = <<None, None>>
    /\ disk = {}
    /\ reruns = 0

NextUI == SelectSource \/ UploadFile \/ SelectSheet \/ UploadDb \/ EditQuery

SpecUI == InitUI /\ [][NextUI]_vars

----------------------------------------------------------------------------
(* Claims about the data-source tabs (SpecUI) *)

\* the table a load from what the widgets of source idx now select gives
SelectedTable(idx) ==
    LET w == widgets[idx]
    IN IF w.source = "Archivo Excel/CSV"
       THEN TableOf("file", w.uploaded_file.name,
                    IF w.uploaded_file.name \in ExcelFiles THEN w.sheet ELSE NoSheet)
       ELSE TableOf("db", w.uploaded_db.name, w.query)

\* C13: after any sequence of reruns, the table held for source idx (the one
\* a comparison would use) is the one loaded from the file and sheet, or the
\* database and query, that the widgets of idx now select.
C13_HeldTableIsSelectedOne ==
    \A idx \in 1..2 : data[idx] # None => data[idx] = SelectedTable(idx)

\* C14: after any sequence of reruns, no temporary copy of an uploaded
\* database written in a rerun that has ended is still on disk.
C14_TempFilesReleased == \A tmp \in disk : tmp.rerun > reruns

====
